---------------------------- MODULE Spec2Model ----------------------------
(***************************************************************************)
(* Party Parrot: the lighting Director (parrot/director/director.py), the  *)
(* owner tick loop that drives it (parrot/gl_window_app.py) and the HTTP   *)
(* control surface (parrot/api/web_server.py).                             *)
(*                                                                         *)
(* Time is counted in whole seconds.  Signal intensities and the manual    *)
(* dimmer are counted in hundredths (0.2 is 20, 1.0 is 100).               *)
(***************************************************************************)
EXTENDS Integers, Sequences, FiniteSets, TLC

VARIABLES
    \* ---- parrot.state.State (owned outside the Director)
    mode,               \* State.mode
    vj_mode,            \* State.vj_mode
    effect,             \* State.effect
    venue,              \* State.venue
    theme,              \* State.theme
    hype,               \* State.hype, 0..100
    hype_limiter,       \* State.hype_limiter
    manual_dimmer,      \* State.manual_dimmer, in hundredths
    gui_queue,          \* State's queue of deferred updates, <<kind, value>>
    \* ---- Director
    fixture_groups,     \* Director.fixture_groups: a sequence of fixture lists
    interpreters,       \* Director.interpreters: a sequence of interpreters
    scheme,             \* Director.scheme: the LerpAnimator [from, to, at]
    last_shift_time,    \* Director.last_shift_time
    shift_count,        \* Director.shift_count
    start_time,         \* Director.start_time
    warmup_complete,    \* Director.warmup_complete
    last_frame,         \* Director.last_frame; NoFrame until the first step()
    \* ---- VJDirector
    vj_shifts,          \* number of VJDirector.shift() calls
    vj_threshold,       \* threshold of the last VJDirector.shift() call
    \* ---- web_server module globals
    last_hype_time,     \* web_server.last_hype_time
    http_response,      \* the response of the last HTTP request handled
    \* ---- the process
    registry,           \* the interpreters mode_interpretations can return
    WARMUP_SECONDS,     \* director.WARMUP_SECONDS, read from the environment
    now,                \* time.time()
    pc,                 \* position of the owner loop inside a tick
    error,              \* the exception that ended the owner loop, or NoError
    rendered_dimmer,    \* dimmer last given to the venue's manual group
    \* ---- the SwitchController the owner loop renders to
    controller_map,     \* SwitchController.controller_map: universe -> controller
    entec_universes,    \* SwitchController._entec_universes
    submitted,          \* universes whose controller.submit() ran in this tick
    call_log,           \* the calls Director.step has made in this tick
    last_op             \* the operation that took the last step (trace aid)

stateVars == <<mode, vj_mode, effect, venue, theme, hype, hype_limiter,
               manual_dimmer, gui_queue>>
directorVars == <<fixture_groups, interpreters, scheme, last_shift_time,
                  shift_count, start_time, warmup_complete, last_frame>>
vjVars == <<vj_shifts, vj_threshold>>
webVars == <<last_hype_time, http_response>>
procVars == <<registry, WARMUP_SECONDS, now, pc, error, rendered_dimmer,
              last_op>>
dmxVars == <<controller_map, entec_universes, submitted>>
procVars_but_last_op == <<registry, WARMUP_SECONDS, now, pc, error,
                         rendered_dimmer, dmxVars, call_log>>
vars == <<stateVars, directorVars, vjVars, webVars, procVars, dmxVars,
          call_log>>

-----------------------------------------------------------------------------
(* Bounds of the model *)

MaxTime == 125          \* the clock stops advancing here
MaxShifts == 2          \* manual shifts are offered while shift_count is below
MaxQueue == 2           \* HTTP requests are offered while the queue is shorter
MaxVjShifts == 3        \* VJ shifts are counted up to here
StartEpoch == 1000      \* time.time() when the program starts, in seconds

-----------------------------------------------------------------------------
(* Program constants *)

SHIFT_AFTER == 60
HYPE_DURATION == 8
LERP_DURATION == 4
SHIFT_GATE == 20        \* the 0.2 of the sustained_low gate, in hundredths
HYPE_SPREAD == 30

HYPE_BUCKETS == <<10, 40, 70>>

NoFrame == [none |-> TRUE]
NoError == "none"
NoResponse ==
    [code |-> 0, success |-> FALSE, error |-> "", value |-> "", number |-> 0,
     available |-> {}, active |-> FALSE]

Min(a, b) == IF a < b THEN a ELSE b
Max(a, b) == IF a > b THEN a ELSE b

-----------------------------------------------------------------------------
(* The enumerations and the patch, which live outside the Director.  The    *)
(* Director reads them; the values below are small instances of them.       *)

Modes == {"blackout", "gentle", "rave"}
VJModes == {"blackout", "full_rave"}
Signals == {"sustained_low", "strobe"}

\* The fixture classes Director.group_fixtures clusters, in its order.
to_group == <<"Par", "MovingHead", "Motionstrip", "Laser",
              "ChauvetRotosphere_28Ch", "ChauvetDerby">>

\* A fixture: its DMX address and the classes it is an instance of.
Fx(addr, kinds) == [addr |-> addr, kinds |-> kinds]
\* A patch entry is a fixture or a FixtureGroup (a ManualGroup when manual).
Single(f) == [is_group |-> FALSE, manual |-> FALSE, fixtures |-> <<f>>]
Group(fs) == [is_group |-> TRUE, manual |-> FALSE, fixtures |-> fs]
Manual(fs) == [is_group |-> TRUE, manual |-> TRUE, fixtures |-> fs]

Venues == {"bare", "club", "theatre"}

venue_patches ==
    [v \in Venues |->
       CASE v = "bare" ->
              \* a manual group and a fixture of a class that is not clustered
              << Manual(<<Fx(1, {"Par"})>>), Single(Fx(9, {"Blinder"})) >>
         [] v = "club" ->
              << Single(Fx(10, {"Par"})), Single(Fx(20, {"MovingHead"})),
                 Single(Fx(11, {"Par"})) >>
         [] v = "theatre" ->
              << Group(<<Fx(30, {"MovingHead"}), Fx(31, {"MovingHead"})>>),
                 Manual(<<Fx(1, {"Par"})>>),
                 Single(Fx(40, {"Laser"})), Single(Fx(10, {"Par"})),
                 Single(Fx(50, {"ChauvetDerby"})) >> ]

\* A ColorScheme is the triple <<fg, bg, bg_contrast>>; a colour is a number.
Themes == {"rave_theme", "mono_theme"}
theme_color_scheme ==
    [t \in Themes |->
       IF t = "rave_theme" THEN {<<1, 2, 3>>, <<4, 5, 6>>} ELSE {<<7, 7, 7>>}]
theme_allow_rainbows == [t \in Themes |-> t = "rave_theme"]
\* parrot.director.color_schemes.color_schemes: the schemes of every theme
color_schemes == UNION {theme_color_scheme[t] : t \in Themes}

-----------------------------------------------------------------------------
(* Director.group_fixtures *)

\* The explicit, non-manual FixtureGroups of a patch, in patch order.
ExplicitGroups(patch) ==
    LET keep(e) == e.is_group /\ ~e.manual
        kept == SelectSeq(patch, keep)
    IN  [i \in 1..Len(kept) |-> kept[i].fixtures]

\* The patch entries that are no FixtureGroup, in patch order.
UngroupedFixtures(patch) ==
    LET loose(e) == ~e.is_group
        kept == SelectSeq(patch, loose)
    IN  [i \in 1..Len(kept) |-> kept[i].fixtures[1]]

\* A faulty clustering that walks the priority list backwards.
ClusteredGroups_reversed(patch) ==
    LET ungrouped == UngroupedFixtures(patch)
        cluster(k) == LET isa(f) == to_group[Len(to_group) + 1 - k] \in f.kinds
                      IN  SelectSeq(ungrouped, isa)
        all == [k \in 1..Len(to_group) |-> cluster(k)]
        nonempty(c) == Len(c) > 0
    IN  SelectSeq(all, nonempty)

\* One cluster per class of to_group, in its order, the empty ones dropped.
ClusteredGroups(patch) ==
    LET ungrouped == UngroupedFixtures(patch)
        cluster(k) == LET isa(f) == to_group[k] \in f.kinds
                      IN  SelectSeq(ungrouped, isa)
        all == [k \in 1..Len(to_group) |-> cluster(k)]
        nonempty(c) == Len(c) > 0
    IN  SelectSeq(all, nonempty)

group_fixtures(v) ==
    ExplicitGroups(venue_patches[v]) \o ClusteredGroups(venue_patches[v])

\* patch_bay.get_manual_group: whether the venue has a manual group
has_manual_group(v) ==
    \E i \in 1..Len(venue_patches[v]) : venue_patches[v][i].manual

-----------------------------------------------------------------------------
(* Interpreters.  mode_interpretations.get_interpreter picks the interpreter *)
(* class itself (at random, within the hype bounds): what it returns is one  *)
(* of InterpreterKinds, bound to the group it was given.  An interpreter     *)
(* object is told from another by its id.                                    *)

InterpreterKinds ==
    {[switch |-> FALSE, responds_to |-> {}]}
    \cup {[switch |-> TRUE, responds_to |-> S] : S \in SUBSET Signals}

InterpreterArgs(h, allow_rainbows, hype_min, hype_max) ==
    [hype |-> h, allow_rainbows |-> allow_rainbows,
     hype_min |-> hype_min, hype_max |-> hype_max]

get_interpreter(m, group, args, kind, id) ==
    [id |-> id, group |-> group, mode |-> m, args |-> args,
     switch |-> kind.switch, responds_to |-> kind.responds_to]

\* Faulty bounds that are not clamped to the range of the hype.
hype_bracket_unclamped ==
    << IF ~hype_limiter THEN 0 ELSE hype - HYPE_SPREAD,
       IF ~hype_limiter THEN 100 ELSE hype + HYPE_SPREAD >>

\* The bounds both regeneration paths compute from the live hype.
hype_bracket ==
    << IF ~hype_limiter THEN 0 ELSE Max(0, hype - HYPE_SPREAD),
       IF ~hype_limiter THEN 100 ELSE Min(100, hype + HYPE_SPREAD) >>

IdsOf(interps) == {interps[i].id : i \in 1..Len(interps)}

\* The ids of n new objects, none of them an object that is still alive.
RECURSIVE FreshIds(_, _)
FreshIds(used, n) ==
    IF n = 0 THEN <<>>
    ELSE LET id == CHOOSE i \in 0..Cardinality(used) :
                      i \notin used /\ \A j \in 0..(i - 1) : j \in used
         IN  <<id>> \o FreshIds(used \cup {id}, n - 1)

\* The list comprehension of generate_interpreters and shift_lighting_only:
\* one interpreter per fixture group, in the order of the groups.
\* kinds[i] is what get_interpreter returns for group i.
InterpreterList(groups, m, kinds, old) ==
    LET ids == FreshIds(IdsOf(old), Len(groups))
    IN  [i \in 1..Len(groups) |->
           get_interpreter(
               m, groups[i],
               InterpreterArgs(HYPE_BUCKETS[((i - 1) % Len(HYPE_BUCKETS)) + 1],
                               theme_allow_rainbows[theme],
                               hype_bracket[1], hype_bracket[2]),
               kinds[i], ids[i])]

\* Director.generate_interpreters: the new value of Director.interpreters.
generate_interpreters(groups, m, kinds, old) ==
    InterpreterList(groups, m, kinds, old)

\* A faulty shift_interpreter that takes the first fixture group whatever
\* the eviction index is.
shift_interpreter_first_group(interps, eviction_index, kind) ==
    LET id == FreshIds(IdsOf(interps), 1)[1]
    IN  [interps EXCEPT ![eviction_index] =
           get_interpreter(
               mode, fixture_groups[1],
               InterpreterArgs(hype, theme_allow_rainbows[theme],
                               hype_bracket[1], hype_bracket[2]),
               kind, id)]

\* A faulty shift_interpreter that rebuilds the whole list.
shift_interpreter_rebuild_all(interps, eviction_index, kind) ==
    InterpreterList(fixture_groups, mode, [i \in 1..Len(interps) |-> kind],
                    interps)

\* Director.shift_interpreter: the interpreter at eviction_index is replaced
\* by a new one for the group at that index.  The caller has checked that
\* the list is not empty (random.randint raises ValueError when it is).
shift_interpreter(interps, eviction_index, kind) ==
    LET eviction_group == fixture_groups[eviction_index]
        id == FreshIds(IdsOf(interps), 1)[1]
    IN  [interps EXCEPT ![eviction_index] =
           get_interpreter(
               mode, eviction_group,
               InterpreterArgs(hype, theme_allow_rainbows[theme],
                               hype_bracket[1], hype_bracket[2]),
               kind, id)]

\* The interpreters that are signal switches (responds_to and set_enabled).
SignalSwitches(interps) == {i \in 1..Len(interps) : interps[i].switch}

Handled(interps, s) ==
    \E i \in SignalSwitches(interps) : s \in interps[i].responds_to

\* A faulty ensure_each_signal_is_enabled that returns after the first
\* signal it has enabled.
ensure_first_signal_only(interps, pick) ==
    LET missing == {s \in Signals : ~Handled(interps, s)}
    IN  IF SignalSwitches(interps) = {} \/ missing = {} THEN interps
        ELSE LET first == CHOOSE s \in missing : TRUE
             IN  [interps EXCEPT ![pick[first]].responds_to = @ \cup {first}]

\* A faulty guarantor that enables a missing signal on every switch.
ensure_on_every_switch(interps, pick) ==
    IF SignalSwitches(interps) = {} THEN interps
    ELSE [i \in 1..Len(interps) |->
            IF interps[i].switch
            THEN [interps[i] EXCEPT !.responds_to =
                     @ \cup {s \in Signals : ~Handled(interps, s)}]
            ELSE interps[i]]

\* A faulty guarantor that enables every signal on the switch picked for
\* it, handled or not.
ensure_ignores_coverage(interps, pick) ==
    IF SignalSwitches(interps) = {} THEN interps
    ELSE [i \in 1..Len(interps) |->
            [interps[i] EXCEPT !.responds_to =
                @ \cup {s \in Signals : pick[s] = i}]]

\* Director.ensure_each_signal_is_enabled.  pick[s] is the switch that
\* random.choice returns for signal s.
ensure_each_signal_is_enabled(interps, pick) ==
    IF SignalSwitches(interps) = {} THEN interps
    ELSE [i \in 1..Len(interps) |->
            [interps[i] EXCEPT !.responds_to =
                @ \cup {s \in Signals : ~Handled(interps, s) /\ pick[s] = i}]]

\* The choices random.choice can make in ensure_each_signal_is_enabled.
Picks(interps) ==
    IF SignalSwitches(interps) = {} THEN {[s \in Signals |-> 0]}
    ELSE [Signals -> SignalSwitches(interps)]

-----------------------------------------------------------------------------
(* The colour scheme animator, parrot.utils.lerp.LerpAnimator *)

Lerp(a, b, num, den) == a + (((b - a) * num) \div den)

\* LerpAnimator.render at time t
LerpRender(sch, t) ==
    IF t - sch.at >= LERP_DURATION THEN sch.to
    ELSE [k \in 1..3 |->
            Lerp(sch.from[k], sch.to[k], Max(0, t - sch.at), LERP_DURATION)]

\* LerpAnimator.push at time t
Push(sch, s, t) == [from |-> LerpRender(sch, t), to |-> s, at |-> t]

\* A faulty generate_color_scheme that renders and pushes nothing.
generate_color_scheme_no_push(sch, s, t) == sch

\* Director.generate_color_scheme, s the scheme random.choice returns
generate_color_scheme(sch, s, t) == Push(sch, s, t)

\* A faulty shift_color_scheme that splices the axis into the scheme the
\* animator is heading for instead of the rendered one.
shift_color_scheme_from_target(sch, s, idx, t) ==
    Push(sch, [sch.to EXCEPT ![idx + 1] = s[idx + 1]], t)

\* Director.shift_color_scheme: s the candidate, idx the axis (0..2)
shift_color_scheme(sch, s, idx, t) ==
    LET ct == LerpRender(sch, t)
        new_scheme == [ct EXCEPT ![idx + 1] = s[idx + 1]]
    IN  Push(sch, new_scheme, t)

-----------------------------------------------------------------------------
(* What the interpreter factory and the random generator may return *)

KindsFor(groups) == [1..Len(groups) -> registry]
Axes == 0..2

-----------------------------------------------------------------------------
(* Director.shift, shift_lighting_only, shift_vj_only and the event        *)
(* handlers, as the changes they make to the Director and the VJDirector.  *)

\* VJDirector.shift(vj_mode, threshold): threshold in hundredths
VjShift(threshold) ==
    /\ vj_shifts' = vj_shifts + 1
    /\ vj_threshold' = threshold

\* What Director.shift_color_scheme may push: s is the candidate that
\* random.choice returns, idx the axis that random.randint returns.
ShiftedSchemes ==
    {shift_color_scheme(scheme, s, idx, now) :
        s \in theme_color_scheme[theme], idx \in Axes}

\* What shift_interpreter followed by ensure_each_signal_is_enabled may
\* leave in Director.interpreters (the list is not empty).
ReshuffledInterpreters ==
    UNION {
      {ensure_each_signal_is_enabled(shifted, pick) : pick \in Picks(shifted)} :
         shifted \in {shift_interpreter(interpreters, eviction_index, kind) :
                         eviction_index \in 1..Len(interpreters),
                         kind \in registry}}

\* Director.shift; the caller says what pc is when it returns.  On an empty
\* interpreter list shift_color_scheme has run when random.randint(0, -1)
\* in shift_interpreter raises ValueError, which nothing catches.
shift(next_pc) ==
    /\ scheme' \in ShiftedSchemes
    /\ IF Len(interpreters) = 0
       THEN /\ error' = "ValueError"
            /\ pc' = "crashed"
            /\ UNCHANGED <<interpreters, last_shift_time, shift_count, vjVars>>
       ELSE /\ interpreters' \in ReshuffledInterpreters
            /\ VjShift(30)
            /\ last_shift_time' = now
            /\ shift_count' = shift_count + 1
            /\ pc' = next_pc
            /\ UNCHANGED error

\* A faulty on_mode_change that reshuffles one interpreter for the new mode
\* and keeps the others.
on_mode_change_first_only(m) ==
    interpreters' \in
       {[interpreters EXCEPT ![1] =
            generate_interpreters(fixture_groups, m, kinds, interpreters)[1]] :
           kinds \in KindsFor(fixture_groups)}

\* Director.on_mode_change(m), called by State.set_mode after it stored m
on_mode_change(m) ==
    interpreters' \in
       {generate_interpreters(fixture_groups, m, kinds, interpreters) :
           kinds \in KindsFor(fixture_groups)}

\* A faulty setup_patch that regroups the fixtures and keeps the
\* interpreters it had.
setup_patch_keeps_interpreters(v) ==
    /\ fixture_groups' = group_fixtures(v)
    /\ UNCHANGED interpreters
    /\ VjShift(100)

\* Director.setup_patch, the handler of on_venue_change
setup_patch(v) ==
    /\ fixture_groups' = group_fixtures(v)
    /\ interpreters' \in
          {generate_interpreters(group_fixtures(v), mode, kinds, interpreters) :
              kinds \in KindsFor(group_fixtures(v))}
    /\ VjShift(100)

-----------------------------------------------------------------------------
(* parrot.state.State: the setters the owner thread calls, the queue the   *)
(* web server fills and the drain of that queue.                           *)

\* State.set_mode(m): stores the mode and notifies on_mode_change
set_mode(m) ==
    IF m = mode
    THEN UNCHANGED <<mode, interpreters>>
    ELSE mode' = m /\ on_mode_change(m)

\* The modes, in queue order, that a drain of q makes the current mode,
\* starting from mode m.
RECURSIVE EffectiveModes(_, _)
EffectiveModes(q, m) ==
    IF q = <<>> THEN <<>>
    ELSE IF Head(q)[1] = "mode" /\ Head(q)[2] # m
         THEN <<Head(q)[2]>> \o EffectiveModes(Tail(q), Head(q)[2])
         ELSE EffectiveModes(Tail(q), m)

\* The last value of the given kind in q, or the current one.
RECURSIVE LastOf(_, _, _)
LastOf(q, kind, current) ==
    IF q = <<>> THEN current
    ELSE LastOf(Tail(q), kind,
                IF Head(q)[1] = kind THEN Head(q)[2] ELSE current)

\* The interpreter list after one regeneration per mode of ms.
RECURSIVE Regenerations(_, _, _)
Regenerations(interps, ms, kinds) ==
    IF ms = <<>> THEN interps
    ELSE Regenerations(
             generate_interpreters(fixture_groups, Head(ms), kinds, interps),
             Tail(ms), kinds)

\* State.set_mode_thread_safe and its siblings: the update is only queued
enqueue(kind, value) == gui_queue' = Append(gui_queue, <<kind, value>>)

\* State.process_gui_updates: every queued update is applied, in order,
\* through the setter of its kind, and the queue is left empty.
process_gui_updates ==
    /\ gui_queue' = <<>>
    /\ mode' = LastOf(gui_queue, "mode", mode)
    /\ vj_mode' = LastOf(gui_queue, "vj_mode", vj_mode)
    /\ effect' = LastOf(gui_queue, "effect", effect)
    /\ IF EffectiveModes(gui_queue, mode) = <<>>
       THEN UNCHANGED interpreters
       ELSE interpreters' \in
               {Regenerations(interpreters, EffectiveModes(gui_queue, mode),
                              kinds) : kinds \in KindsFor(fixture_groups)}

\* State.set_manual_dimmer(value)
set_manual_dimmer(value) == manual_dimmer' = value

-----------------------------------------------------------------------------
(* The owner loop of run_gl_window_app.  One tick is process_gui_updates,  *)
(* Director.step, Director.render; everything else the main thread does    *)
(* (window events, the web server's handle_request) runs between ticks.    *)

Running == error = NoError
Idle == Running /\ pc = "idle"

\* Time passes between two ticks.
AdvanceTime(d) ==
    /\ Idle
    /\ now + d <= MaxTime
    /\ now' = now + d
    /\ last_op' = "advance_time"
    /\ UNCHANGED <<stateVars, directorVars, vjVars, webVars, registry,
                   WARMUP_SECONDS, pc, error, rendered_dimmer, dmxVars,
                   call_log>>

\* A faulty variant of the drain: the tick goes on to render without step
ProcessGuiUpdates_skips_step ==
    /\ Idle
    /\ process_gui_updates
    /\ pc' = "render"
    /\ submitted' = <<>>
    /\ last_op' = "process_gui_updates"
    /\ UNCHANGED <<venue, theme, hype, hype_limiter, manual_dimmer,
                   fixture_groups, scheme, last_shift_time, shift_count,
                   start_time, warmup_complete, last_frame, vjVars, webVars,
                   registry, WARMUP_SECONDS, now, error, rendered_dimmer,
                   controller_map, entec_universes, call_log>>

ProcessGuiUpdates ==
    /\ Idle
    /\ process_gui_updates
    /\ pc' = "step"
    /\ submitted' = <<>>
    /\ last_op' = "process_gui_updates"
    /\ UNCHANGED <<venue, theme, hype, hype_limiter, manual_dimmer,
                   fixture_groups, scheme, last_shift_time, shift_count,
                   start_time, warmup_complete, last_frame, vjVars, webVars,
                   registry, WARMUP_SECONDS, now, error, rendered_dimmer,
                   controller_map, entec_universes, call_log>>

\* frame * warmup_phase, compared with the gate: whether the scaled
\* sustained_low is below 0.2, with warmup_phase = min(1, run_time / W).
ScaledBelowGate(low, run_time) ==
    IF run_time >= WARMUP_SECONDS
    THEN low < SHIFT_GATE
    ELSE low * run_time < SHIFT_GATE * WARMUP_SECONDS

\* A faulty shift condition that already holds when exactly SHIFT_AFTER
\* seconds have passed.
ShiftDue_at_threshold(low) ==
    /\ now - last_shift_time >= SHIFT_AFTER
    /\ ScaledBelowGate(low, now - start_time)

\* The condition of the scheduled shift in Director.step
ShiftDue(low) ==
    /\ now - last_shift_time > SHIFT_AFTER
    /\ ScaledBelowGate(low, now - start_time)

\* frame * warmup_phase: the scaled sustained_low as numerator and
\* denominator, in hundredths
ScaledFrame(low, run_time) ==
    IF run_time >= WARMUP_SECONDS THEN <<low, 1>>
    ELSE <<low * run_time, WARMUP_SECONDS>>

\* One call made by step(): the method, the object it is called on (the
\* index of a patch entry or the id of an interpreter, -1 for the Director
\* and the VJDirector) and the frame and scheme it is given.
Call(op, target, frame, sch) ==
    [op |-> op, target |-> target, frame |-> frame, scheme |-> sch]
SelfCall(op) == Call(op, -1, <<0, 1>>, <<0, 0, 0>>)

\* for fixture in venue_patches[venue]: fixture.begin()
BeginCalls ==
    [k \in 1..Len(venue_patches[venue]) |->
        Call("begin", k, <<0, 1>>, <<0, 0, 0>>)]

\* for i in self.interpreters: i.step(frame, scheme), likewise i.exit
InterpreterCalls(op, frame, sch) ==
    [k \in 1..Len(interpreters) |-> Call(op, interpreters[k].id, frame, sch)]

\* A faulty order of step(): the fixtures are reset after the interpreters
\* have stepped.
step_calls_begin_last(low) ==
    LET frame == ScaledFrame(low, now - start_time)
        sch == LerpRender(scheme, now)
    IN  InterpreterCalls("step", frame, sch) \o BeginCalls
        \o <<Call("vj_step", -1, frame, sch)>>

\* The calls of step() up to the shift condition, in order.
step_calls(low) ==
    LET frame == ScaledFrame(low, now - start_time)
        sch == LerpRender(scheme, now)
    IN  BeginCalls \o InterpreterCalls("step", frame, sch)
        \o <<Call("vj_step", -1, frame, sch)>>

\* The calls of step() once the shift condition holds: exit on every
\* interpreter, then the statements of shift() in their order; on an empty
\* list shift_interpreter raises and nothing after it runs.
shift_calls(low) ==
    InterpreterCalls("exit", ScaledFrame(low, now - start_time),
                     LerpRender(scheme, now))
    \o <<SelfCall("shift_color_scheme"), SelfCall("shift_interpreter")>>
    \o (IF Len(interpreters) = 0 THEN <<>>
        ELSE <<SelfCall("ensure_each_signal_is_enabled"),
               SelfCall("vj_shift"), SelfCall("last_shift_time")>>)

\* Director.step(frame); low is the frame's sustained_low
Step(low) ==
    /\ Running
    /\ pc = "step"
    /\ last_frame' = [sustained_low |-> low]
    /\ warmup_complete' = (warmup_complete \/ now - start_time >= WARMUP_SECONDS)
    /\ IF ShiftDue(low)
       THEN /\ shift("render")
            /\ call_log' = step_calls(low) \o shift_calls(low)
       ELSE /\ pc' = "render"
            /\ call_log' = step_calls(low)
            /\ UNCHANGED <<scheme, interpreters, last_shift_time, shift_count,
                           vjVars, error>>
    /\ last_op' = "step"
    /\ UNCHANGED <<stateVars, fixture_groups, start_time, webVars, registry,
                   WARMUP_SECONDS, now, rendered_dimmer, dmxVars>>

\* The Universe enumeration, in the order get_controller fills the map
Universes == <<"default", "art1">>

\* dmx_utils.artnet_config: the venues that have an Art-Net node
artnet_config == {"club"}

\* get_controller(venue): the default universe is the Enttec device when
\* one answers and a mock otherwise; art1 exists for an Art-Net venue.
get_controller(v, entec) ==
    LET keys == {"default"} \cup (IF v \in artnet_config THEN {"art1"} ELSE {})
    IN  [controller_map |->
            [u \in keys |-> IF u = "art1" THEN "artnet"
                            ELSE IF entec THEN "entec" ELSE "mock"],
         entec_universes |-> IF entec THEN {"default"} ELSE {}]

\* What controller.submit() may do: return, or raise one of these
SubmitOutcomes == {"ok", "SerialException", "OSError", "ValueError"}

\* The exceptions SwitchController.submit catches
CaughtBySubmit == {"SerialException", "OSError"}

\* What get_entec_controller() may do during a reconnect
ReconnectOutcomes == {"entec", "mock", "raise"}

\* A faulty reconnect that keeps tracking a universe it has given a mock.
reconnect_entec_keeps_tracking(s, u, reconnect) ==
    IF u \notin s.entec_universes
    THEN s
    ELSE IF reconnect = "entec"
    THEN [s EXCEPT !.controller_map[u] = "entec"]
    ELSE [s EXCEPT !.controller_map[u] = "mock"]

\* SwitchController._reconnect_entec(universe), for a tracked universe
reconnect_entec(s, u, reconnect) ==
    IF u \notin s.entec_universes
    THEN s
    ELSE IF reconnect = "entec"
    THEN [s EXCEPT !.controller_map[u] = "entec"]
    ELSE [s EXCEPT !.controller_map[u] = "mock",
                   !.entec_universes = @ \ {u}]

\* SwitchController.submit(): the loop over controller_map.items(), from
\* the i-th universe on. faults[u] is what the controller of u does when
\* its submit() is called; an exception the loop does not catch ends it.
RECURSIVE switch_submit(_, _, _, _)
switch_submit(s, i, faults, reconnect) ==
    IF i > Len(Universes) THEN s
    ELSE LET u == Universes[i]
         IN  IF u \notin DOMAIN s.controller_map
             THEN switch_submit(s, i + 1, faults, reconnect)
             ELSE LET called == [s EXCEPT !.submitted = Append(@, u)]
                  IN  IF faults[u] = "ok"
                      THEN switch_submit(called, i + 1, faults, reconnect)
                      ELSE IF faults[u] \in CaughtBySubmit
                      THEN switch_submit(
                               reconnect_entec(called, u, reconnect),
                               i + 1, faults, reconnect)
                      ELSE [called EXCEPT !.error = faults[u]]

\* Director.render(dmx): the manual group and the fixtures render into the
\* controller, then dmx.submit() runs; what it raises leaves the tick.
DirectorRender(faults, reconnect) ==
    /\ Running
    /\ pc = "render"
    /\ rendered_dimmer' =
          IF has_manual_group(venue) THEN manual_dimmer ELSE rendered_dimmer
    /\ LET r == switch_submit([controller_map |-> controller_map,
                               entec_universes |-> entec_universes,
                               submitted |-> submitted,
                               error |-> NoError], 1, faults, reconnect)
       IN  /\ controller_map' = r.controller_map
           /\ entec_universes' = r.entec_universes
           /\ submitted' = r.submitted
           /\ error' = r.error
           /\ pc' = IF r.error = NoError THEN "idle" ELSE "crashed"
    /\ call_log' = <<>>
    /\ last_op' = "render"
    /\ UNCHANGED <<stateVars, directorVars, vjVars, webVars, registry,
                   WARMUP_SECONDS, now>>

\* A render whose controllers all accept the frame
NoFaults == [u \in {"default", "art1"} |-> "ok"]

Render == DirectorRender(NoFaults, "mock")

-----------------------------------------------------------------------------
(* The Director's operations the keyboard handler calls between ticks *)

DirectorShift ==
    /\ Idle
    /\ shift_count < MaxShifts
    /\ vj_shifts < MaxVjShifts
    /\ shift("idle")
    /\ last_op' = "shift"
    /\ UNCHANGED <<stateVars, fixture_groups, start_time, warmup_complete,
                   last_frame, webVars, registry, WARMUP_SECONDS, now,
                   rendered_dimmer, dmxVars, call_log>>

\* What the regeneration of shift_lighting_only followed by
\* ensure_each_signal_is_enabled may leave in Director.interpreters.
RegeneratedInterpreters ==
    UNION {
      {ensure_each_signal_is_enabled(fresh, pick) : pick \in Picks(fresh)} :
         fresh \in {InterpreterList(fixture_groups, mode, kinds, interpreters) :
                       kinds \in KindsFor(fixture_groups)}}

\* A faulty shift_lighting_only that only runs the guarantor on the
\* interpreters it has.
shift_lighting_only_no_regeneration ==
    /\ scheme' \in {generate_color_scheme(scheme, s, now) :
                       s \in theme_color_scheme[theme]}
    /\ interpreters' \in {ensure_each_signal_is_enabled(interpreters, pick) :
                             pick \in Picks(interpreters)}
    /\ last_shift_time' = now
    /\ shift_count' = shift_count + 1

\* A faulty shift_lighting_only that does not count itself.
shift_lighting_only_not_counted ==
    /\ scheme' \in {generate_color_scheme(scheme, s, now) :
                       s \in theme_color_scheme[theme]}
    /\ interpreters' \in RegeneratedInterpreters
    /\ last_shift_time' = now
    /\ shift_count' = shift_count

\* Director.shift_lighting_only
shift_lighting_only ==
    /\ scheme' \in {generate_color_scheme(scheme, s, now) :
                       s \in theme_color_scheme[theme]}
    /\ interpreters' \in RegeneratedInterpreters
    /\ last_shift_time' = now
    /\ shift_count' = shift_count + 1

DirectorShiftLightingOnly ==
    /\ Idle
    /\ shift_count < MaxShifts
    /\ shift_lighting_only
    /\ last_op' = "shift_lighting_only"
    /\ UNCHANGED <<stateVars, fixture_groups, start_time, warmup_complete,
                   last_frame, vjVars, webVars, procVars_but_last_op>>

\* Director.shift_vj_only
DirectorShiftVjOnly ==
    /\ Idle
    /\ vj_shifts < MaxVjShifts
    /\ VjShift(100)
    /\ last_op' = "shift_vj_only"
    /\ UNCHANGED <<stateVars, directorVars, webVars, procVars_but_last_op>>

-----------------------------------------------------------------------------
(* The overlay and the menu bar, which call State's setters on the owner   *)
(* thread between ticks.                                                   *)

GuiSetMode(m) ==
    /\ Idle
    /\ set_mode(m)
    /\ last_op' = IF m = mode THEN "gui_set_mode_same" ELSE "gui_set_mode"
    /\ UNCHANGED <<vj_mode, effect, venue, theme, hype, hype_limiter,
                   manual_dimmer, gui_queue, fixture_groups, scheme,
                   last_shift_time, shift_count, start_time, warmup_complete,
                   last_frame, vjVars, webVars, procVars_but_last_op>>

\* State.set_vj_mode(v); VJDirector._on_vj_mode_change regenerates visuals
GuiSetVjMode(v) ==
    /\ Idle
    /\ vj_mode' = v
    /\ last_op' = "gui_set_vj_mode"
    /\ UNCHANGED <<mode, effect, venue, theme, hype, hype_limiter,
                   manual_dimmer, gui_queue, directorVars, vjVars, webVars,
                   procVars_but_last_op>>

\* State.set_venue(v), which notifies Director.setup_patch
GuiSetVenue(v) ==
    /\ Idle
    /\ v # venue
    /\ vj_shifts < MaxVjShifts
    /\ venue' = v
    /\ setup_patch(v)
    /\ last_op' = "gui_set_venue"
    /\ UNCHANGED <<mode, vj_mode, effect, theme, hype, hype_limiter,
                   manual_dimmer, gui_queue, scheme, last_shift_time,
                   shift_count, start_time, warmup_complete, last_frame,
                   webVars, procVars_but_last_op>>

\* State.set_theme(t), which notifies Director.generate_color_scheme
GuiSetTheme(t) ==
    /\ Idle
    /\ t # theme
    /\ theme' = t
    /\ scheme' \in {generate_color_scheme(scheme, s, now) :
                       s \in theme_color_scheme[t]}
    /\ last_op' = "gui_set_theme"
    /\ UNCHANGED <<mode, vj_mode, effect, venue, hype, hype_limiter,
                   manual_dimmer, gui_queue, fixture_groups, interpreters,
                   last_shift_time, shift_count, start_time, warmup_complete,
                   last_frame, vjVars, webVars, procVars_but_last_op>>

-----------------------------------------------------------------------------
(* parrot/api/web_server.py.  The server is made with threaded=False and   *)
(* its handle_request is called from the main thread, between ticks.       *)

Response(code, success, err, value, number, available) ==
    [code |-> code, success |-> success, error |-> err, value |-> value,
     number |-> number, available |-> available, active |-> FALSE]

NoParam == "(missing)"
ModeInputs == Modes \cup {"disco", NoParam}
VJModeInputs == VJModes \cup {"disco", NoParam}
EffectInputs == {"strobe", "pulse", NoParam}
DimmerInputs == {-50, 0, 40, 100, 170}

\* A faulty POST /api/mode that answers a valid name with success and
\* never hands it to State.
set_mode_request_no_enqueue(mode_name) ==
    /\ http_response' =
          IF mode_name = NoParam
          THEN Response(400, FALSE, "Missing mode parameter", NoParam, 0, {})
          ELSE IF mode_name \in Modes
          THEN Response(200, TRUE, "", mode_name, 0, {})
          ELSE Response(400, FALSE, "Invalid mode", mode_name, 0, Modes)
    /\ UNCHANGED gui_queue

\* POST /api/mode
set_mode_request(mode_name) ==
    IF mode_name = NoParam
    THEN /\ http_response' =
               Response(400, FALSE, "Missing mode parameter", NoParam, 0, {})
         /\ UNCHANGED gui_queue
    ELSE IF mode_name \in Modes
    THEN /\ http_response' = Response(200, TRUE, "", mode_name, 0, {})
         /\ enqueue("mode", mode_name)
    ELSE /\ http_response' = Response(400, FALSE, "Invalid mode", mode_name, 0, Modes)
         /\ UNCHANGED gui_queue

HttpSetMode(mode_name) ==
    /\ Idle
    /\ Len(gui_queue) < MaxQueue
    /\ set_mode_request(mode_name)
    /\ last_op' = "http_set_mode"
    /\ UNCHANGED <<mode, vj_mode, effect, venue, theme, hype, hype_limiter,
                   manual_dimmer, directorVars, vjVars, last_hype_time,
                   procVars_but_last_op>>

\* A faulty POST /api/vj_mode that hands the name to State before it looks
\* the name up in the enumeration.
set_vj_mode_request_enqueue_first(vj_mode_name) ==
    IF vj_mode_name = NoParam
    THEN /\ http_response' =
               Response(400, FALSE, "Missing vj_mode parameter", NoParam, 0, {})
         /\ UNCHANGED gui_queue
    ELSE /\ enqueue("vj_mode", vj_mode_name)
         /\ http_response' =
               IF vj_mode_name \in VJModes
               THEN Response(200, TRUE, "", vj_mode_name, 0, {})
               ELSE Response(400, FALSE, "Invalid vj_mode", vj_mode_name, 0,
                             VJModes)

\* POST /api/vj_mode
set_vj_mode_request(vj_mode_name) ==
    IF vj_mode_name = NoParam
    THEN /\ http_response' =
               Response(400, FALSE, "Missing vj_mode parameter", NoParam, 0, {})
         /\ UNCHANGED gui_queue
    ELSE IF vj_mode_name \in VJModes
    THEN /\ http_response' = Response(200, TRUE, "", vj_mode_name, 0, {})
         /\ enqueue("vj_mode", vj_mode_name)
    ELSE /\ http_response' =
               Response(400, FALSE, "Invalid vj_mode", vj_mode_name, 0, VJModes)
         /\ UNCHANGED gui_queue

HttpSetVjMode(vj_mode_name) ==
    /\ Idle
    /\ Len(gui_queue) < MaxQueue
    /\ set_vj_mode_request(vj_mode_name)
    /\ last_op' = "http_set_vj_mode"
    /\ UNCHANGED <<mode, vj_mode, effect, venue, theme, hype, hype_limiter,
                   manual_dimmer, directorVars, vjVars, last_hype_time,
                   procVars_but_last_op>>

\* POST /api/effect: the effect name is not checked
set_effect_request(effect_name) ==
    IF effect_name = NoParam
    THEN /\ http_response' =
               Response(400, FALSE, "Missing effect parameter", NoParam, 0, {})
         /\ UNCHANGED gui_queue
    ELSE /\ http_response' = Response(200, TRUE, "", effect_name, 0, {})
         /\ enqueue("effect", effect_name)

HttpSetEffect(effect_name) ==
    /\ Idle
    /\ Len(gui_queue) < MaxQueue
    /\ set_effect_request(effect_name)
    /\ last_op' = "http_set_effect"
    /\ UNCHANGED <<mode, vj_mode, effect, venue, theme, hype, hype_limiter,
                   manual_dimmer, directorVars, vjVars, last_hype_time,
                   procVars_but_last_op>>

\* A faulty POST /api/manual_dimmer that stores the value as it came.
set_manual_dimmer_request_unclamped(value) ==
    /\ set_manual_dimmer(value)
    /\ http_response' = Response(200, TRUE, "", "", value, {})

\* POST /api/manual_dimmer: value = max(0, min(1, value)), then the setter
set_manual_dimmer_request(value) ==
    LET clamped == Max(0, Min(100, value))
    IN  /\ set_manual_dimmer(clamped)
        /\ http_response' = Response(200, TRUE, "", "", clamped, {})

HttpSetManualDimmer(value) ==
    /\ Idle
    /\ set_manual_dimmer_request(value)
    /\ last_op' = "http_set_manual_dimmer"
    /\ UNCHANGED <<mode, vj_mode, effect, venue, theme, hype, hype_limiter,
                   gui_queue, directorVars, vjVars, last_hype_time,
                   procVars_but_last_op>>

\* time.time() as the web server reads it: seconds since the Unix epoch.
\* (The Director only subtracts two readings, so it is given now itself.)
time_time == StartEpoch + now

\* Director.deploy_hype: self.mode_machine is an attribute the Director
\* never sets, so the call raises AttributeError before anything is done.
deploy_hype == "AttributeError"

\* POST /api/hype: the Director is called directly; when it raises, the
\* handler is left before last_hype_time is set and Flask answers 500.
deploy_hype_request ==
    IF deploy_hype = NoError
    THEN /\ last_hype_time' = time_time
         /\ http_response' = Response(200, TRUE, "", "", HYPE_DURATION, {})
    ELSE /\ UNCHANGED last_hype_time
         /\ http_response' = Response(500, FALSE, deploy_hype, "", 0, {})

HttpDeployHype ==
    /\ Idle
    /\ deploy_hype_request
    /\ last_op' = "http_deploy_hype"
    /\ UNCHANGED <<stateVars, directorVars, vjVars, procVars_but_last_op>>

\* GET /api/hype/status, as a function of the clock and last_hype_time
get_hype_status(current_time, last) ==
    LET elapsed == current_time - last
    IN  IF elapsed < HYPE_DURATION
        THEN [active |-> TRUE, remaining |-> HYPE_DURATION - elapsed]
        ELSE [active |-> FALSE, remaining |-> 0]

HttpGetHypeStatus ==
    /\ Idle
    /\ LET status == get_hype_status(time_time, last_hype_time)
       IN  http_response' =
              [Response(200, FALSE, "", "", status.remaining, {})
                 EXCEPT !.active = status.active]
    /\ last_op' = "http_get_hype_status"
    /\ UNCHANGED <<stateVars, directorVars, vjVars, last_hype_time,
                   procVars_but_last_op>>

-----------------------------------------------------------------------------
(* The state after State(), VJDirector(state), Director(state, vj_director) *)
(* and start_web_server: the constructor runs setup_patch (group_fixtures, *)
(* generate_all) and generate_color_scheme.                                *)

InitState(venues, modes, themes, subjects, hypes, limiters, warmups, regs, entecs) ==
    /\ registry \in regs
    /\ mode \in modes
    /\ vj_mode = "full_rave"
    /\ effect = "none"
    /\ venue \in venues
    /\ theme \in themes
    /\ hype \in hypes
    /\ hype_limiter \in limiters
    /\ manual_dimmer = 0
    /\ gui_queue = <<>>
    /\ fixture_groups = group_fixtures(venue)
    /\ \E kinds \in KindsFor(group_fixtures(venue)) :
          interpreters =
             generate_interpreters(group_fixtures(venue), mode, kinds, <<>>)
    /\ \E subject \in subjects, s \in theme_color_scheme[theme] :
          scheme = generate_color_scheme(
                       [from |-> subject, to |-> subject, at |-> 0], s, 0)
    /\ last_shift_time = 0
    /\ shift_count = 0
    /\ start_time = 0
    /\ warmup_complete = FALSE
    /\ last_frame = NoFrame
    /\ vj_shifts = 1
    /\ vj_threshold = 100
    /\ last_hype_time = 0
    /\ http_response = NoResponse
    /\ WARMUP_SECONDS \in warmups
    /\ now = 0
    /\ pc = "idle"
    /\ error = NoError
    /\ rendered_dimmer = 0
    /\ \E entec \in entecs :
          /\ controller_map = get_controller(venue, entec).controller_map
          /\ entec_universes = get_controller(venue, entec).entec_universes
    /\ submitted = <<>>
    /\ call_log = <<>>
    /\ last_op = "init"

\* The frames the audio analyzer may deliver: sustained_low in hundredths
LowInputs == {10, 20, 90}
WarmupInputs == {1, 100}

-----------------------------------------------------------------------------
(* Spec: the Director's life: construction, mode, venue and theme changes, *)
(* scheduled and manual shifts, with every interpreter the factory offers. *)

SmallRegistry ==
    {[switch |-> FALSE, responds_to |-> {}],
     [switch |-> TRUE, responds_to |-> {}],
     [switch |-> TRUE, responds_to |-> {"sustained_low"}]}

Init ==
    InitState({"bare", "club"}, {"gentle"}, {"mono_theme"},
              theme_color_scheme["mono_theme"], {50}, {TRUE}, {1},
              {SmallRegistry}, {FALSE})

Next ==
    \/ AdvanceTime(61)
    \/ ProcessGuiUpdates
    \/ Step(10)
    \/ Render
    \/ DirectorShift
    \/ DirectorShiftLightingOnly
    \/ \E m \in {"gentle", "rave"} : GuiSetMode(m)
    \/ \E v \in {"bare", "club"} : GuiSetVenue(v)

Spec == Init /\ [][Next]_vars

-----------------------------------------------------------------------------
(* Properties of Spec *)

\* A completed Director.shift(): the one operation that both counts a shift
\* and asks the VJDirector for a partial (threshold 0.3) shift.
ShiftDone == shift_count' = shift_count + 1 /\ last_op' \in {"shift", "step"}
\* A completed shift of either kind (shift or shift_lighting_only).
AnyShiftDone == shift_count' = shift_count + 1

Covered(interps) == \A s \in Signals : Handled(interps, s)

\* C1: after construction and after any sequence of venue changes, mode
\* changes, regenerations and shifts, the interpreter list is as long as the
\* list of fixture groups and the interpreter at index i is bound to the
\* fixture group at index i.
C1_InterpretersMatchGroups ==
    /\ Len(interpreters) = Len(fixture_groups)
    /\ \A i \in 1..Len(interpreters) :
          interpreters[i].group = fixture_groups[i]

\* C1 witness: two groups, after a venue change, a mode change and a shift
\* that replaced the second interpreter.
C1_Witness ==
    /\ last_op = "shift"
    /\ venue = "club"
    /\ mode = "rave"
    /\ vj_shifts >= 3
    /\ Len(interpreters) = 2
    /\ interpreters[2].args.hype = hype

\* C2 as stated: after any shift operation every signal is handled by some
\* interpreter that is a signal switch.
C2_Original_CoveredAfterShift ==
    [][AnyShiftDone => Covered(interpreters')]_vars

\* C2 amended: after any shift operation that returns, if at least one
\* interpreter is a signal switch, every signal is handled by some
\* interpreter that is a signal switch.
C2_CoveredAfterShiftWhenSwitchExists ==
    [][AnyShiftDone /\ SignalSwitches(interpreters') # {}
          => Covered(interpreters')]_vars

\* C2 witness: a shift has run and the guarantor enabled "strobe", a signal
\* no interpreter of the factory responds to by itself.
C2_Witness ==
    /\ last_op \in {"shift", "shift_lighting_only", "step"}
    /\ shift_count > 0
    /\ \E i \in 1..Len(interpreters) : "strobe" \in interpreters[i].responds_to
    /\ Covered(interpreters)

\* C3 as stated: after generate_interpreters (at construction, on a mode
\* change, on a venue change) every signal is handled by some signal switch
\* whenever the list holds a signal switch.
C3_CoveredAfterGeneration ==
    (/\ last_op \in {"init", "gui_set_mode", "gui_set_venue"}
     /\ SignalSwitches(interpreters) # {})
        => Covered(interpreters)

\* C6: shift_interpreter() replaces exactly one entry of the interpreter
\* list, by a new interpreter bound to the fixture group at that index, and
\* leaves every other entry the object it was; fixture_groups is unchanged.
\* The first conjunct is shift_interpreter itself, at every list the
\* Director reaches; the second is the list before and after a whole shift().
C6_ShiftInterpreterReplacesOne ==
    /\ [](\A e \in 1..Len(interpreters), kind \in registry :
            LET after == shift_interpreter(interpreters, e, kind)
            IN  /\ Len(after) = Len(interpreters)
                /\ after[e].id \notin IdsOf(interpreters)
                /\ after[e].group = fixture_groups[e]
                /\ \A j \in 1..Len(interpreters) :
                      j # e => after[j] = interpreters[j])
    /\ [][ShiftDone =>
            /\ fixture_groups' = fixture_groups
            /\ Len(interpreters') = Len(interpreters)
            /\ Cardinality({i \in 1..Len(interpreters) :
                              interpreters'[i].id # interpreters[i].id}) = 1
            /\ \A i \in 1..Len(interpreters) :
                  \/ interpreters'[i].id = interpreters[i].id
                  \/ /\ interpreters'[i].id \notin IdsOf(interpreters)
                     /\ interpreters'[i].group = fixture_groups[i]]_vars

\* C6 witness: after a shift() of a two-entry list one entry is the new
\* interpreter (built with the live hype) and the other an old one (built
\* with its hype bucket).
C6_Witness ==
    /\ last_op = "shift"
    /\ Len(interpreters) = 2
    /\ shift_count = 1
    /\ interpreters[1].args.hype = hype
    /\ interpreters[2].args.hype = HYPE_BUCKETS[2]

-----------------------------------------------------------------------------
(* SpecGate: the scheduled shift of Director.step against the clock, the   *)
(* warmup ramp and the sustained_low signal.  The factory offers one       *)
(* interpreter; the environment sets WARMUP_TIME to 1 (the default) or 100. *)

PlainRegistry == {[switch |-> FALSE, responds_to |-> {}]}

InitGate ==
    InitState({"bare", "club"}, {"gentle"}, {"mono_theme"},
              theme_color_scheme["mono_theme"], {50}, {TRUE}, WarmupInputs,
              {PlainRegistry}, {FALSE})

NextGate ==
    \/ AdvanceTime(30)
    \/ AdvanceTime(31)
    \/ ProcessGuiUpdates
    \/ \E low \in LowInputs : Step(low)
    \/ Render
    \/ DirectorShiftLightingOnly

SpecGate == InitGate /\ [][NextGate]_vars

\* A step() that was given a frame with this raw sustained_low
StepTaken == last_op' = "step"
RawLow == last_frame'.sustained_low

\* C4 as stated: step() never performs a scheduled shift on a tick whose
\* sustained_low intensity is 0.2 or more, at any time since start, the
\* warmup ramp included.
C4_NoShiftWhileSustainedLowHeld ==
    [][StepTaken /\ RawLow >= SHIFT_GATE
          => shift_count' = shift_count /\ last_shift_time' = last_shift_time]_vars

\* C5 as stated: once more than 60 s have passed since last_shift_time, a
\* step() whose sustained_low is below 0.2 shifts in that same tick:
\* shift_count grows by exactly one and the window restarts.
C5_ShiftWhenDueAndLow ==
    [][StepTaken /\ now - last_shift_time > SHIFT_AFTER /\ RawLow < SHIFT_GATE
          => /\ shift_count' = shift_count + 1
             /\ last_shift_time' = now]_vars

\* C7 as stated: with no fixture groups the interpreter list is empty and no
\* step() or render() raises, whatever the time and the signal.
C7_EmptyVenueNeverRaises ==
    fixture_groups = <<>> => interpreters = <<>> /\ error = NoError

-----------------------------------------------------------------------------
(* SpecWeb: the web server's requests against the owner loop.  The loop    *)
(* runs a tick whenever the audio analyzer delivers a frame, which is the  *)
(* fairness of ProcessGuiUpdates.                                          *)

InitWeb ==
    InitState({"bare", "club"}, {"gentle"}, {"mono_theme"},
              theme_color_scheme["mono_theme"], {50}, {TRUE}, {1},
              {PlainRegistry}, {FALSE})

NextWeb ==
    \/ AdvanceTime(61)
    \/ ProcessGuiUpdates
    \/ Step(10)
    \/ Render
    \/ \E n \in {"rave", "disco", NoParam} : HttpSetMode(n)
    \/ \E n \in {"blackout", "disco"} : HttpSetVjMode(n)
    \/ \E n \in {"strobe", NoParam} : HttpSetEffect(n)
    \/ \E x \in {-50, 40, 170} : HttpSetManualDimmer(x)
    \/ HttpDeployHype

SpecWeb == InitWeb /\ [][NextWeb]_vars /\ WF_vars(ProcessGuiUpdates)

HttpOps == {"http_set_mode", "http_set_vj_mode", "http_set_effect",
            "http_set_manual_dimmer", "http_deploy_hype"}

\* C8 as stated: no HTTP handler changes State or the Director itself; a
\* handler only queues the change, which the drain of the next tick applies.
C8_HandlersOnlyEnqueue ==
    [][last_op' \in HttpOps
          => UNCHANGED <<mode, vj_mode, effect, venue, theme, hype,
                         hype_limiter, manual_dimmer, directorVars, vjVars>>]_vars

\* The kind of update a handler queues
QueuedKind(op) ==
    CASE op = "http_set_mode" -> "mode"
      [] op = "http_set_vj_mode" -> "vj_mode"
      [] op = "http_set_effect" -> "effect"

\* The last update of a kind in a queue, when there is one
IsLastOfKind(q, i) == \A j \in (i + 1)..Len(q) : q[j][1] # q[i][1]

\* C9: a mode, effect or VJ-mode request answered with success is not
\* applied when it is answered: it is appended to the queue.  The queue is
\* drained at the start of the next tick, before step(): the drain empties
\* it and leaves in State the last queued value of each kind, with the
\* interpreters regenerated for the mode it leaves; during step() and
\* render() the queue is empty; and a queued request is eventually drained.
C9_AcknowledgedThenAppliedAtDrain ==
    /\ [][(last_op' \in {"http_set_mode", "http_set_vj_mode", "http_set_effect"}
           /\ http_response'.success)
            => /\ UNCHANGED <<mode, vj_mode, effect, interpreters>>
               /\ gui_queue' = gui_queue \o
                     << <<QueuedKind(last_op'), http_response'.value>> >>]_vars
    /\ [][last_op' = "process_gui_updates"
            => /\ gui_queue' = <<>>
               /\ \A i \in 1..Len(gui_queue) :
                     IsLastOfKind(gui_queue, i) =>
                        CASE gui_queue[i][1] = "mode" -> mode' = gui_queue[i][2]
                          [] gui_queue[i][1] = "vj_mode" ->
                                vj_mode' = gui_queue[i][2]
                          [] gui_queue[i][1] = "effect" ->
                                effect' = gui_queue[i][2]
               /\ \A i \in 1..Len(interpreters') :
                     interpreters'[i].mode = mode'
               /\ mode' # mode =>
                     IdsOf(interpreters') \cap IdsOf(interpreters) = {}]_vars
    /\ [](pc \in {"step", "render"} => gui_queue = <<>>)
    /\ (gui_queue # <<>>) ~> (gui_queue = <<>>)

\* C9 witness: the drain has applied a queued and acknowledged mode request.
C9_Witness ==
    /\ last_op = "process_gui_updates"
    /\ http_response.success
    /\ http_response.value = "rave"
    /\ mode = "rave"
    /\ gui_queue = <<>>
    /\ Len(interpreters) = 2
    /\ \A i \in 1..2 : interpreters[i].mode = "rave"

\* C10: a mode or VJ-mode name outside the enumeration is answered with
\* 400 and the list of valid names; nothing is queued and neither State nor
\* the Director nor the VJDirector changes.
C10_InvalidNameRejected ==
    [][(\/ /\ last_op' = "http_set_mode"
           /\ http_response'.value \notin Modes \cup {NoParam}
        \/ /\ last_op' = "http_set_vj_mode"
           /\ http_response'.value \notin VJModes \cup {NoParam})
          => /\ http_response'.code = 400
             /\ ~http_response'.success
             /\ http_response'.available =
                   (IF last_op' = "http_set_mode" THEN Modes ELSE VJModes)
             /\ UNCHANGED <<stateVars, directorVars, vjVars>>]_vars

\* C10 witness: an invalid mode name was just rejected while an earlier,
\* valid request is still queued.
C10_Witness ==
    /\ last_op = "http_set_mode"
    /\ http_response.value = "disco"
    /\ http_response.code = 400
    /\ http_response.available = Modes
    /\ gui_queue = << <<"vj_mode", "blackout">> >>

\* C13: a manual-dimmer request stores 0 for a value below 0, 1 for a value
\* above 1 and the value itself otherwise (hundredths), answers with the
\* stored value, and the stored dimmer is always within [0,1].
C13_ManualDimmerClamped ==
    /\ [](manual_dimmer >= 0 /\ manual_dimmer <= 100)
    /\ [][\A x \in DimmerInputs :
            HttpSetManualDimmer(x)
               => /\ manual_dimmer' =
                        (IF x < 0 THEN 0 ELSE IF x > 100 THEN 100 ELSE x)
                  /\ http_response'.number = manual_dimmer']_vars

\* C13 witness: 1.7 was requested after 0.4 had been stored, and 1 is stored.
C13_Witness ==
    /\ last_op = "http_set_manual_dimmer"
    /\ manual_dimmer = 100
    /\ http_response.number = 100
    /\ rendered_dimmer = 40

-----------------------------------------------------------------------------
(* SpecHype: the hype deploy and its status query against the clock, in    *)
(* steps of one and seven seconds.                                         *)

InitHype ==
    InitState({"club"}, {"gentle"}, {"mono_theme"},
              theme_color_scheme["mono_theme"], {50}, {TRUE}, {1},
              {PlainRegistry}, {FALSE})

NextHype ==
    \/ AdvanceTime(1)
    \/ AdvanceTime(7)
    \/ ProcessGuiUpdates
    \/ Step(10)
    \/ Render
    \/ HttpDeployHype
    \/ HttpGetHypeStatus

SpecHype == InitHype /\ [][NextHype]_vars

\* C11 as stated: a hype deploy requested at any time after startup, also
\* before the first step(), succeeds, records the trigger time and starts
\* the 8-second window, so the status right after it is active.
C11_DeployStartsWindow ==
    [][last_op' = "http_deploy_hype"
          => /\ http_response'.success
             /\ last_hype_time' = time_time
             /\ get_hype_status(time_time', last_hype_time').active]_vars

-----------------------------------------------------------------------------
(* SpecFrame: what each event and each shift variant changes and leaves.   *)
(* Three venues, two themes, two modes, the keyboard's three shifts.  The *)
(* clock stands still, so no tick brings a scheduled shift.                *)

InitFrame ==
    InitState({"bare", "club"}, {"gentle"}, {"mono_theme"},
              theme_color_scheme["mono_theme"], {50}, {TRUE}, {1},
              {PlainRegistry}, {FALSE})

NextFrame ==
    \/ ProcessGuiUpdates
    \/ Step(10)
    \/ Render
    \/ DirectorShift
    \/ DirectorShiftLightingOnly
    \/ DirectorShiftVjOnly
    \/ \E m \in {"gentle", "rave"} : GuiSetMode(m)
    \/ \E v \in Venues : GuiSetVenue(v)
    \/ \E t \in Themes : GuiSetTheme(t)

SpecFrame == InitFrame /\ [][NextFrame]_vars

\* Every entry of the list after is a newly built interpreter for mode m,
\* bound to the group at its index, with the hype of its bucket.
AllRegenerated(before, after, groups, m) ==
    /\ Len(after) = Len(groups)
    /\ \A i \in 1..Len(after) :
          /\ after[i].id \notin IdsOf(before)
          /\ after[i].mode = m
          /\ after[i].group = groups[i]
          /\ after[i].args.hype = HYPE_BUCKETS[((i - 1) % 3) + 1]

\* C14: a mode-change notification regenerates the whole interpreter list
\* for the new mode and leaves the colour scheme, the VJDirector,
\* fixture_groups, last_shift_time and shift_count as they were.
C14_ModeChangeRegeneratesOnly ==
    [][last_op' = "gui_set_mode"
          => /\ AllRegenerated(interpreters, interpreters', fixture_groups,
                               mode')
             /\ UNCHANGED <<scheme, vjVars, fixture_groups, last_shift_time,
                            shift_count>>]_vars

\* C14 witness: the mode was changed to rave after a shift, on two groups.
C14_Witness ==
    /\ last_op = "gui_set_mode"
    /\ mode = "rave"
    /\ shift_count = 1
    /\ Len(interpreters) = 2
    /\ \A i \in 1..2 : interpreters[i].mode = "rave"

\* C15: shift_lighting_only pushes a new colour-scheme target and
\* regenerates every interpreter without calling the VJDirector;
\* shift_vj_only only asks the VJDirector for a shift with threshold 1.0.
\* Neither looks at the clock or at the signal.
C15_ShiftVariantsIndependent ==
    /\ [][last_op' = "shift_lighting_only"
            => /\ scheme'.to \in theme_color_scheme[theme]
               /\ scheme'.at = now
               /\ AllRegenerated(interpreters, interpreters', fixture_groups,
                                 mode)
               /\ shift_count' = shift_count + 1
               /\ last_shift_time' = now
               /\ UNCHANGED vjVars]_vars
    /\ [][last_op' = "shift_vj_only"
            => /\ vj_shifts' = vj_shifts + 1
               /\ vj_threshold' = 100
               /\ UNCHANGED <<interpreters, scheme, last_shift_time,
                              shift_count, fixture_groups>>]_vars

\* C15 witness: both variants have run at time 0, when no scheduled shift
\* is due, on two groups.
C15_Witness ==
    /\ last_op = "shift_vj_only"
    /\ now = 0
    /\ shift_count = 1
    /\ vj_shifts = 2
    /\ vj_threshold = 100
    /\ Len(interpreters) = 2
    /\ \A i \in 1..2 : interpreters[i].id >= 2

\* The elements of a sequence
Range(seq) == {seq[i] : i \in 1..Len(seq)}

\* C19: a venue change rebuilds fixture_groups from the new venue's patch
\* and replaces every interpreter by a new one bound to the new group at
\* its index, so none is bound to a group of the old venue; the colour
\* scheme is not changed.
C19_VenueChangeRebuilds ==
    [][last_op' = "gui_set_venue"
          => /\ fixture_groups' = group_fixtures(venue')
             /\ AllRegenerated(interpreters, interpreters', fixture_groups',
                               mode)
             /\ \A i \in 1..Len(interpreters') :
                   interpreters'[i].group \notin Range(fixture_groups)
             /\ scheme' = scheme]_vars

\* C19 witness: the venue was changed from club to theatre after a shift;
\* the four interpreters are bound to the theatre's groups.
C19_Witness ==
    /\ last_op = "gui_set_venue"
    /\ venue = "theatre"
    /\ shift_count = 1
    /\ Len(interpreters) = 4
    /\ interpreters[1].group = <<Fx(30, {"MovingHead"}), Fx(31, {"MovingHead"})>>
    /\ \A i \in 1..4 : interpreters[i].id >= 2

\* A tick or an event that ran a shift, completed or not.
ShiftRan ==
    \/ last_op' \in {"shift", "shift_lighting_only"}
    \/ last_op' = "step" /\ (shift_count' # shift_count \/ error' # NoError)

\* C20: the interpreter list is replaced only on a mode change, a venue
\* change (also one the drain of the queue applies) and a shift, and the
\* colour-scheme target only on a theme change and a shift.  A theme
\* change pushes a scheme of the new theme and leaves the interpreters, fixture_groups, last_shift_time and shift_count; a
\* tick that runs no shift replaces neither.
C20_ReplacedOnlyByItsEvents ==
    /\ [][interpreters' # interpreters
            => \/ last_op' \in {"gui_set_mode", "gui_set_venue"}
               \/ last_op' = "process_gui_updates" /\ mode' # mode
               \/ ShiftRan]_vars
    /\ [][scheme' # scheme => last_op' = "gui_set_theme" \/ ShiftRan]_vars
    /\ [][last_op' = "gui_set_theme"
            => /\ scheme'.to \in theme_color_scheme[theme']
               /\ scheme'.at = now
               /\ UNCHANGED <<interpreters, fixture_groups, last_shift_time,
                              shift_count>>]_vars
    /\ [][(last_op' \in {"step", "render"} /\ ~ShiftRan)
            => UNCHANGED <<interpreters, scheme>>]_vars

\* C20 witness: the theme was changed to the rave theme after a shift, on
\* two groups, and a scheme of the rave theme is the target.
C20_Witness ==
    /\ last_op = "gui_set_theme"
    /\ theme = "rave_theme"
    /\ scheme.to \in theme_color_scheme["rave_theme"]
    /\ shift_count = 1
    /\ Len(interpreters) = 2
    /\ last_frame # NoFrame

-----------------------------------------------------------------------------
(* SpecDmx: the tick loop rendering to a SwitchController whose            *)
(* controllers may fail: every outcome of each controller's submit() and   *)
(* of the reconnect, with an Enttec device at startup.                     *)

InitDmx ==
    InitState({"bare", "club"}, {"gentle"}, {"mono_theme"},
              theme_color_scheme["mono_theme"], {50}, {TRUE}, {1},
              {PlainRegistry}, {TRUE})

NextDmx ==
    \/ AdvanceTime(1)
    \/ ProcessGuiUpdates
    \/ Step(10)
    \/ \E faults \in [{"default", "art1"} -> SubmitOutcomes],
          reconnect \in ReconnectOutcomes :
          DirectorRender(faults, reconnect)

SpecDmx == InitDmx /\ [][NextDmx]_vars

\* C16: a fault raised while a controller submits never leaves
\* Director.render: after every render the loop is alive and back between
\* two ticks, and every universe of the controller map was submitted.
C16_SubmitFaultNeverLeavesRender ==
    last_op = "render"
        => /\ error = NoError
           /\ pc = "idle"
           /\ Range(submitted) = DOMAIN controller_map

\* C17: only render submits, once per tick and after the step of the same
\* tick: the submissions of a tick change only when the drain starts a new
\* tick or in render; render follows a completed step of its tick, starts
\* with nothing submitted and calls each controller at most once.
C17_SubmitOncePerTickAfterStep ==
    /\ [][submitted' # submitted
            => \/ last_op' = "process_gui_updates" /\ submitted' = <<>>
               \/ last_op' = "render"]_vars
    /\ [][last_op' = "render"
            => /\ last_op = "step"
               /\ pc = "render"
               /\ last_frame # NoFrame
               /\ submitted = <<>>
               /\ Len(submitted') >= 1
               /\ Cardinality(Range(submitted')) = Len(submitted')]_vars

\* C17 witness: a tick stepped and then rendered to both universes of an
\* Art-Net venue, on the second tick or later.
C17_Witness ==
    /\ last_op = "render"
    /\ submitted = <<"default", "art1">>
    /\ error = NoError
    /\ now > 0

\* The fixtures of a venue's patch that are in no manual group
NonManualFixtures(v) ==
    UNION {Range(venue_patches[v][i].fixtures) :
              i \in {j \in 1..Len(venue_patches[v]) :
                         ~venue_patches[v][j].manual}}

\* C18: after group_fixtures every fixture of the venue's patch that is in
\* no manual group is in exactly one entry of fixture_groups.
C18_EveryFixtureInExactlyOneGroup ==
    \A f \in NonManualFixtures(venue) :
        Cardinality({i \in 1..Len(fixture_groups) :
                        f \in Range(fixture_groups[i])}) = 1

-----------------------------------------------------------------------------
(* The order of the calls inside one step() *)

\* The positions in the log of the calls of method op
CallsOf(log, op) == {k \in 1..Len(log) : log[k].op = op}

\* Every position of a call of op1 is before every position of one of op2
AllBefore(log, op1, op2) ==
    \A a \in CallsOf(log, op1), b \in CallsOf(log, op2) : a < b

\* The step that is being taken called op once on each interpreter the
\* Director had when it began, with the scaled frame and rendered scheme.
OncePerInterpreter(log, op) ==
    /\ Cardinality(CallsOf(log, op)) = Len(interpreters)
    /\ \A i \in 1..Len(interpreters) :
          \E k \in CallsOf(log, op) :
             /\ log[k].target = interpreters[i].id
             /\ log[k].frame =
                   ScaledFrame(last_frame'.sustained_low, now - start_time)
             /\ log[k].scheme = LerpRender(scheme, now)

\* The order of one step(): begin on every patch entry first, then step on
\* every interpreter; the shift runs exactly when the gate holds, after the
\* steps, with exit on every interpreter before the first statement of
\* shift(), whose statements run in their order and end by restarting the
\* shift window.
StepOrder ==
    LET log == call_log'
        fired == CallsOf(log, "shift_color_scheme") # {}
    IN  /\ \A e \in 1..Len(venue_patches[venue]) :
              Cardinality({k \in CallsOf(log, "begin") : log[k].target = e}) = 1
        /\ OncePerInterpreter(log, "step")
        /\ AllBefore(log, "begin", "step")
        /\ fired <=> ShiftDue(last_frame'.sustained_low)
        /\ fired =>
              /\ OncePerInterpreter(log, "exit")
              /\ AllBefore(log, "begin", "exit")
              /\ AllBefore(log, "step", "exit")
              /\ AllBefore(log, "step", "shift_color_scheme")
              /\ AllBefore(log, "exit", "shift_color_scheme")
              /\ AllBefore(log, "shift_color_scheme", "shift_interpreter")
              /\ Cardinality(CallsOf(log, "shift_interpreter")) = 1
              /\ Cardinality(CallsOf(log, "ensure_each_signal_is_enabled")) = 1
              /\ Cardinality(CallsOf(log, "last_shift_time")) = 1
              /\ AllBefore(log, "shift_interpreter",
                           "ensure_each_signal_is_enabled")
              /\ AllBefore(log, "ensure_each_signal_is_enabled",
                           "last_shift_time")
              /\ log[Len(log)].op = "last_shift_time"
              /\ last_shift_time' = now
              /\ scheme' \in ShiftedSchemes
              /\ interpreters' \in ReshuffledInterpreters
        /\ ~fired => UNCHANGED <<scheme, interpreters, last_shift_time>>

\* C21: within one step() every fixture is reset before any interpreter
\* steps, every interpreter is stepped once with the scaled frame and the
\* rendered scheme, and only then the gate is evaluated; when it fires,
\* exit is called on every interpreter before the combined shift, which
\* shifts the colour scheme, reshuffles one group, guarantees coverage and
\* then resets last_shift_time.
C21_StepOrderFixed == [][last_op' = "step" /\ pc = "step" => StepOrder]_vars

\* The same order on a Director that has at least one interpreter.
StepOrderOnNonEmptyList ==
    [][(last_op' = "step" /\ pc = "step" /\ Len(interpreters) > 0)
          => StepOrder]_vars

-----------------------------------------------------------------------------
(* The order of the fixture groups *)

\* C22: fixture_groups is, for the venue's patch, first every explicit
\* non-manual group in patch order, then for each class of the priority
\* list, in its order, one group of the top-level fixtures of that class in
\* patch order, only when there is one; manual groups yield no group, and
\* grouping the same patch again gives the same list.
C22_GroupsInFixedOrder ==
    LET patch == venue_patches[venue]
        explicit(e) == e.is_group /\ ~e.manual
        toplevel(e) == ~e.is_group
        groups == SelectSeq(patch, explicit)
        top == SelectSeq(patch, toplevel)
        ofKind(k) == LET isa(e) == to_group[k] \in e.fixtures[1].kinds
                     IN  SelectSeq(top, isa)
        present == {k \in 1..Len(to_group) : Len(ofKind(k)) > 0}
        rank(k) == Cardinality({m \in present : m <= k})
    IN  /\ Len(fixture_groups) = Len(groups) + Cardinality(present)
        /\ \A j \in 1..Len(groups) : fixture_groups[j] = groups[j].fixtures
        /\ \A k \in present :
              fixture_groups[Len(groups) + rank(k)] =
                 [i \in 1..Len(ofKind(k)) |-> ofKind(k)[i].fixtures[1]]
        /\ fixture_groups = group_fixtures(venue)

\* C22 witness: the venue was changed to one whose patch has an explicit
\* group, a manual group and top-level fixtures of three classes listed in
\* another order than the priority list; the Par cluster comes before the
\* Laser cluster although the patch lists the laser first.
C22_Witness ==
    /\ last_op = "gui_set_venue"
    /\ venue = "theatre"
    /\ Len(fixture_groups) = 4
    /\ Len(fixture_groups[1]) = 2
    /\ fixture_groups[2][1].addr = 10
    /\ fixture_groups[3][1].addr = 40

-----------------------------------------------------------------------------
(* SpecArgs: the InterpreterArgs the Director builds, for a low, a middle  *)
(* and a high show-wide hype, with and without the hype limiter, on venues *)
(* of two and of four fixture groups.                                      *)

HypeInputs == {0, 20, 50, 100}

InitArgs ==
    InitState({"club", "theatre"}, {"gentle"}, {"mono_theme"},
              theme_color_scheme["mono_theme"], HypeInputs, BOOLEAN, {1},
              {PlainRegistry}, {FALSE})

NextArgs ==
    \/ DirectorShift
    \/ DirectorShiftLightingOnly
    \/ \E m \in {"gentle", "rave"} : GuiSetMode(m)
    \/ \E v \in {"club", "theatre"} : GuiSetVenue(v)

SpecArgs == InitArgs /\ [][NextArgs]_vars

\* The bounds the spec gives for a live hype h
BoundsRule(h, limiter, args) ==
    /\ args.hype_min = (IF limiter THEN (IF h - 30 > 0 THEN h - 30 ELSE 0)
                        ELSE 0)
    /\ args.hype_max = (IF limiter THEN (IF h + 30 < 100 THEN h + 30 ELSE 100)
                        ELSE 100)

\* The bucket of the group at (0-based) index i: 10, 40, 70 cycling
Bucket(i) == CASE i % 3 = 0 -> 10 [] i % 3 = 1 -> 40 [] i % 3 = 2 -> 70

\* C23: every full regeneration builds the interpreter of the group at
\* index i with hype HYPE_BUCKETS[i mod 3] and with the bounds of the live
\* hype; shift_interpreter builds its one interpreter with the live hype
\* itself and bounds by the same rule; the bounds of every interpreter
\* satisfy 0 <= hype_min <= hype_max <= 100.
C23_ArgsFollowBucketsAndBounds ==
    /\ [](\A i \in 1..Len(interpreters) :
             /\ 0 <= interpreters[i].args.hype_min
             /\ interpreters[i].args.hype_min <= interpreters[i].args.hype_max
             /\ interpreters[i].args.hype_max <= 100)
    /\ [][last_op' \in {"gui_set_mode", "gui_set_venue", "shift_lighting_only"}
            => \A i \in 1..Len(interpreters') :
                  /\ interpreters'[i].id \notin IdsOf(interpreters)
                  /\ interpreters'[i].args.hype = Bucket(i - 1)
                  /\ BoundsRule(hype, hype_limiter, interpreters'[i].args)]_vars
    /\ [][(last_op' = "shift" /\ shift_count' = shift_count + 1)
            => \E i \in 1..Len(interpreters) :
                  /\ interpreters'[i].id \notin IdsOf(interpreters)
                  /\ interpreters'[i].args.hype = hype
                  /\ BoundsRule(hype, hype_limiter, interpreters'[i].args)
                  /\ \A j \in 1..Len(interpreters) :
                        j # i => interpreters'[j] = interpreters[j]]_vars

\* C23 witness: a full regeneration on four groups with the limiter on and
\* the hype at 100: the fourth group is back at the first bucket, and the
\* bounds are 70 and 100.
C23_Witness ==
    /\ last_op = "shift_lighting_only"
    /\ hype = 100
    /\ hype_limiter
    /\ Len(interpreters) = 4
    /\ interpreters[4].args.hype = 10
    /\ interpreters[3].args.hype = 70
    /\ interpreters[1].args.hype_min = 70
    /\ interpreters[1].args.hype_max = 100

\* C27: every InterpreterArgs the Director has built holds its hype inside
\* its own bounds.
C27_HypeInsideOwnBounds ==
    \A i \in 1..Len(interpreters) :
        /\ interpreters[i].args.hype_min <= interpreters[i].args.hype
        /\ interpreters[i].args.hype <= interpreters[i].args.hype_max

-----------------------------------------------------------------------------
(* SpecScheme: the colour scheme animator under partial and full shifts    *)
(* that fall inside and outside a running interpolation; the Director was  *)
(* made with the mono scheme and heads for a scheme of the rave theme.     *)

InitScheme ==
    InitState({"club"}, {"gentle"}, {"rave_theme"},
              theme_color_scheme["mono_theme"], {50}, {TRUE}, {1},
              {PlainRegistry}, {FALSE})

NextScheme ==
    \/ AdvanceTime(3)
    \/ DirectorShift
    \/ DirectorShiftLightingOnly

SpecScheme == InitScheme /\ [][NextScheme]_vars

\* The axes in which two schemes differ
DifferingAxes(a, b) == {k \in 1..3 : a[k] # b[k]}

\* C24: a partial shift pushes a scheme that differs from the palette
\* rendered at that moment in at most one axis, where it has the value of a
\* candidate of the active theme; a full shift pushes a candidate of the
\* active theme.
C24_PartialShiftChangesOneAxis ==
    /\ [][last_op' = "shift"
            => /\ Cardinality(DifferingAxes(scheme'.to,
                                            LerpRender(scheme, now))) <= 1
               /\ \E k \in 1..3, s \in theme_color_scheme[theme] :
                     /\ scheme'.to[k] = s[k]
                     /\ \A j \in 1..3 :
                           j # k => scheme'.to[j] = LerpRender(scheme, now)[j]
               /\ scheme'.from = LerpRender(scheme, now)
               /\ scheme'.at = now]_vars
    /\ [][last_op' \in {"shift_lighting_only", "gui_set_theme"}
            => /\ scheme'.to \in theme_color_scheme[theme']
               /\ scheme'.from = LerpRender(scheme, now)
               /\ scheme'.at = now]_vars

\* C24 witness: a partial shift three seconds into the interpolation from
\* the mono scheme to a rave scheme: the pushed scheme keeps two axes of the
\* palette rendered on the way, which is neither end of the interpolation.
C24_Witness ==
    /\ last_op = "shift"
    /\ theme = "rave_theme"
    /\ scheme.from \notin color_schemes
    /\ Cardinality(DifferingAxes(scheme.to, scheme.from)) = 1
    /\ \A s \in color_schemes : Cardinality(DifferingAxes(scheme.to, s)) >= 2

-----------------------------------------------------------------------------
(* The coverage guarantor as a function of the interpreter list: it is     *)
(* applied to every list the Director reaches in Spec, with every choice   *)
(* random.choice can make.                                                 *)

\* The signals the guarantor has enabled on interpreter i
NewlyEnabled(before, after, i) ==
    after[i].responds_to \ before[i].responds_to

\* C25: the guarantor cannot fail: without a signal switch it changes
\* nothing; otherwise it replaces no interpreter, disables nothing, enables
\* only signals no switch handled, only on switches, and every such signal
\* on exactly one switch.
C25_GuarantorOnlyRepairs ==
    \A pick \in Picks(interpreters) :
       LET after == ensure_each_signal_is_enabled(interpreters, pick)
           n == Len(interpreters)
       IN  /\ Len(after) = n
           /\ SignalSwitches(interpreters) = {} => after = interpreters
           /\ \A i \in 1..n :
                 /\ after[i] =
                       [interpreters[i] EXCEPT !.responds_to = after[i].responds_to]
                 /\ interpreters[i].responds_to \subseteq after[i].responds_to
                 /\ NewlyEnabled(interpreters, after, i) # {}
                       => i \in SignalSwitches(interpreters)
                 /\ \A s \in NewlyEnabled(interpreters, after, i) :
                       ~Handled(interpreters, s)
           /\ SignalSwitches(interpreters) # {}
                 => \A s \in Signals :
                       ~Handled(interpreters, s)
                          => Cardinality({i \in 1..n :
                                 s \in NewlyEnabled(interpreters, after, i)}) = 1

\* C25 witness: the guarantor ran at the end of shift_lighting_only on two
\* signal switches that did not handle "strobe", and enabled it on one.
C25_Witness ==
    /\ last_op = "shift_lighting_only"
    /\ Len(interpreters) = 2
    /\ SignalSwitches(interpreters) = {1, 2}
    /\ Cardinality({i \in 1..2 : "strobe" \in interpreters[i].responds_to}) = 1

\* C26: the guarantor is idempotent: a second call right after a first one
\* changes no interpreter's responds_to, for any list and any choices; so a
\* list the Director's own call has just left is a fixed point.
C26_GuarantorIdempotent ==
    /\ \A first \in Picks(interpreters) :
          LET once == ensure_each_signal_is_enabled(interpreters, first)
          IN  \A second \in Picks(once) :
                 ensure_each_signal_is_enabled(once, second) = once
    /\ (\/ last_op \in {"shift", "shift_lighting_only"}
        \/ (/\ last_op = "step"
            /\ CallsOf(call_log, "ensure_each_signal_is_enabled") # {}))
          => \A again \in Picks(interpreters) :
                ensure_each_signal_is_enabled(interpreters, again) = interpreters

\* C26 witness: shift_lighting_only has just run the guarantor on a list
\* with a signal switch and a plain interpreter, where it had to enable
\* both signals on the one switch.
C26_Witness ==
    /\ last_op = "shift_lighting_only"
    /\ Len(interpreters) = 2
    /\ Cardinality(SignalSwitches(interpreters)) = 1
    /\ \E i \in SignalSwitches(interpreters) :
          interpreters[i].responds_to = Signals

-----------------------------------------------------------------------------
(* SpecSchedule: the shift window against the clock, in steps of 60 and 61 *)
(* seconds, with quiet frames, manual shifts of the three kinds and mode,  *)
(* venue and theme changes in between.                                     *)

InitSchedule ==
    InitState({"bare"}, {"gentle"}, {"mono_theme"},
              theme_color_scheme["mono_theme"], {50}, {TRUE}, {1},
              {PlainRegistry}, {FALSE})

NextSchedule ==
    \/ AdvanceTime(60)
    \/ AdvanceTime(61)
    \/ ProcessGuiUpdates
    \/ Step(10)
    \/ Render
    \/ DirectorShift
    \/ DirectorShiftLightingOnly
    \/ DirectorShiftVjOnly
    \/ GuiSetMode("rave")
    \/ GuiSetVenue("club")
    \/ GuiSetTheme("rave_theme")

SpecSchedule == InitSchedule /\ [][NextSchedule]_vars

\* A step() that ran shift() to its end
ScheduledShift ==
    /\ last_op' = "step"
    /\ pc = "step"
    /\ CallsOf(call_log', "last_shift_time") # {}

\* A shift() or shift_lighting_only() the keyboard asked for, run to its end
ManualShift ==
    /\ last_op' \in {"shift", "shift_lighting_only"}
    /\ error' = NoError

\* C28: shift_count counts the completed shift() and shift_lighting_only()
\* executions: it starts at 0, each of them adds exactly one and sets
\* last_shift_time to the current time, nothing else changes either, and
\* neither ever decreases.
C28_ShiftStateOnlyByShifts ==
    /\ [](shift_count >= 0 /\ last_shift_time <= now)
    /\ [][(ScheduledShift \/ ManualShift)
            => /\ shift_count' = shift_count + 1
               /\ last_shift_time' = now]_vars
    /\ [][~(ScheduledShift \/ ManualShift)
            => UNCHANGED <<shift_count, last_shift_time>>]_vars
    /\ [][/\ shift_count' >= shift_count
          /\ last_shift_time' >= last_shift_time]_vars

\* C28 witness: one manual shift_lighting_only and one scheduled shift have
\* completed, the second at second 121, after a vj-only shift and a theme
\* change in between.
C28_Witness ==
    /\ shift_count = 2
    /\ last_shift_time = 121
    /\ last_op = "step"
    /\ theme = "rave_theme"
    /\ vj_threshold = 30
    /\ vj_shifts >= 3

\* C29: a scheduled shift runs only when more than SHIFT_AFTER seconds have
\* passed since the last shift of any kind or, before the first, since
\* startup; shift_vj_only and mode, venue and theme changes leave the window
\* where it is.
C29_ScheduledShiftsSpaced ==
    /\ [][(last_op' = "step" /\ pc = "step"
           /\ CallsOf(call_log', "shift_color_scheme") # {})
            => /\ now - last_shift_time > 60
               /\ now - start_time > 60]_vars
    /\ [][last_op' \in {"shift_vj_only", "gui_set_mode", "gui_set_venue",
                        "gui_set_theme", "process_gui_updates", "render"}
            => last_shift_time' = last_shift_time]_vars
    /\ [][(last_op' = "step" /\ pc = "step" /\ now - last_shift_time > 60
           /\ last_frame'.sustained_low < 20 /\ Len(interpreters) > 0)
            => last_shift_time' = now]_vars

\* C29 witness: a scheduled shift at second 122, the next possible moment
\* after the scheduled shift at second 61, with a venue change in between.
C29_Witness ==
    /\ last_op = "step"
    /\ shift_count = 2
    /\ now = 122
    /\ last_shift_time = 122
    /\ venue = "club"
    /\ vj_shifts >= 3

-----------------------------------------------------------------------------
(* SwitchController.submit as a function of the controller's state: it is  *)
(* applied to every state SpecDmx reaches, with every combination of       *)
(* SerialException and OSError faults and every outcome of the reconnect.  *)

DeviceFaults == [{"default", "art1"} -> {"ok", "SerialException", "OSError"}]

SubmitKeepsMap(faults, reconnect) ==
    LET before == [controller_map |-> controller_map,
                   entec_universes |-> entec_universes,
                   submitted |-> <<>>, error |-> NoError]
        r == switch_submit(before, 1, faults, reconnect)
        keys == DOMAIN controller_map
    IN  /\ DOMAIN r.controller_map = keys
        /\ \A u \in keys : r.controller_map[u] \in {"entec", "mock", "artnet"}
        /\ r.entec_universes \subseteq keys
        /\ \A u \in keys \ entec_universes :
              /\ r.controller_map[u] = controller_map[u]
              /\ u \notin r.entec_universes
        /\ \A u \in entec_universes :
              IF faults[u] = "ok"
              THEN r.controller_map[u] = controller_map[u]
                   /\ u \in r.entec_universes
              ELSE IF reconnect = "entec"
              THEN r.controller_map[u] = "entec" /\ u \in r.entec_universes
              ELSE r.controller_map[u] = "mock" /\ u \notin r.entec_universes
        /\ r.error = NoError
        /\ Range(r.submitted) = keys
        /\ Len(r.submitted) = Cardinality(keys)

\* C30: in every state of the SwitchController, and after a submit with any
\* SerialException and OSError faults, every universe maps to a controller,
\* the tracked universes are keys of the map and hold an Enttec controller,
\* a fault on an untracked universe leaves its controller, a failed
\* reconnect leaves a mock that is no longer tracked, and every universe is
\* submitted.
C30_SwitchControllerKeepsItsMap ==
    /\ DOMAIN controller_map \subseteq Range(Universes)
    /\ "default" \in DOMAIN controller_map
    /\ entec_universes \subseteq DOMAIN controller_map
    /\ \A u \in DOMAIN controller_map :
          /\ controller_map[u] \in {"entec", "mock", "artnet"}
          /\ u \in entec_universes <=> controller_map[u] = "entec"
    /\ \A faults \in DeviceFaults, reconnect \in ReconnectOutcomes :
          SubmitKeepsMap(faults, reconnect)

\* C30 witness: the loop started with an Enttec device on an Art-Net venue;
\* after a render the default universe holds a mock and is not tracked any
\* more, which only a failed reconnect leaves, and both universes were
\* submitted in that call.
C30_Witness ==
    /\ last_op = "render"
    /\ error = NoError
    /\ venue = "club"
    /\ controller_map["default"] = "mock"
    /\ controller_map["art1"] = "artnet"
    /\ entec_universes = {}
    /\ submitted = <<"default", "art1">>

=============================================================================
